---- MODULE Spec2Model ----
(***************************************************************************)
(* table_map_db: a disposable entity/attribute store on SQLite             *)
(* (src/src/lib.rs) and the chunked, concurrent pivot/export pipeline that *)
(* reads it (dump_csv, dump_db, proc_ids, read_db_chunked).                *)
(*                                                                         *)
(* Spec        the producer path: next_row, insert, insert_batched and the *)
(*             read calls of TableMapDb, one action per method.            *)
(* ExportSpec  one export run (dump_csv or dump_db) over a seeded store:   *)
(*             the driver, the spawned read_db_chunked tasks and the sink. *)
(* IterSpec    Iterator::next on a TableMapDb, interleaved with next_row   *)
(*             and insert.                                                 *)
(*                                                                         *)
(* The SQL engine is modelled by what the statements of lib.rs rely on:    *)
(* the UNIQUE constraint on item_data.item_val, AUTOINCREMENT rowids, the  *)
(* INTEGER affinity of data_columns.item_id, a table scan in rowid order,  *)
(* and a sorter that keeps the scan order of rows with equal keys.  A      *)
(* statement may also fail for a reason of the engine itself (I/O, lock):  *)
(* wherever lib.rs handles that Err, the action takes a fault input.       *)
(* Where lib.rs unwraps it on the producer path the process panics and no  *)
(* later state exists, so those faults are not drawn.                      *)
(***************************************************************************)
EXTENDS Integers, Sequences, FiniteSets

\* ------------------------------------------------------------------ bounds
\* Rows of data_columns a producer run may write.
MaxAttrs == 3
\* Entries of the IndexMap handed to insert_batched.
MaxPairs == 2
\* Length of a priority list handed to get_distinct_keys by the producer.
MaxPrio == 2
\* Rows of data_columns in a store an export run starts from.
MaxSeedAttrs == 2
\* Largest chunk_size an export run is given.
MaxChunkSize == 2
\* Length of the priority list an export run is given.
MaxExportPrio == 1

\* Item values the producer selects.
Vals == {"apple", "pear"}
\* (key, value) pairs the producer attaches.
Pairs == {<<"color", "red">>, <<"color", "green">>, <<"shape", "oval">>}
\* Keys a priority list may name: one the store can hold, one it never holds.
PrioKeys == {"shape", "size"}
\* Item values of the stores an export run starts from, in creation order.
SeedVals == <<"apple", "pear", "fig">>
\* Keys the priority list of an export run may name.
ExportPrioKeys == {"shape"}

VARIABLES
    item_data,          \* table item_data: sequence of [id, item_val], rowid order
    data_columns,       \* table data_columns: sequence of [id, key, value, item_id]
    current_id,         \* TableMapDb.current_id: None or Some(id)
    last_insert_rowid,  \* the writer connection's last_insert_rowid()
    last,               \* the last call of the producer: its arguments, the
                        \* engine faults it met and what it returned
    phase,              \* where the export driver (dump_csv / dump_db) stands
    sink_kind,          \* "csv" (dump_csv) or "db" (dump_db)
    chunk_size,         \* the run's chunk_size argument
    columns,            \* the run's column list
    all_ids,            \* the run's all_ids
    ids_count,          \* the Chunks iterator proc_ids consumes
    cols,               \* the JoinSet: one task per spawned read_db_chunked
    done_order,         \* tasks that ended and are not yet joined, oldest first
    sink,               \* what the driver handed to the sink, in call order
    export_ret,         \* what the run returned
    current_row_iter,   \* TableMapDb.current_row_iter: None or Some(ids left)
    yielded             \* history: the ids of the mappings next() returned

storeVars == <<item_data, data_columns, current_id, last_insert_rowid>>
exportVars == <<phase, sink_kind, chunk_size, columns, all_ids, ids_count,
                cols, done_order, sink, export_ret>>
iterVars == <<current_row_iter, yielded>>
vars == <<item_data, data_columns, current_id, last_insert_rowid, last,
          phase, sink_kind, chunk_size, columns, all_ids, ids_count,
          cols, done_order, sink, export_ret, current_row_iter, yielded>>

\* ------------------------------------------------------------- Option<i64>
None == <<>>
Some(v) == <<v>>
Unwrap(o) == o[1]

Range(s) == {s[i] : i \in DOMAIN s}

MaxOf(S) == CHOOSE m \in S : \A x \in S : x <= m
MinOf(S) == CHOOSE m \in S : \A x \in S : m <= x

\* ------------------------------------------------------------ conversions
\* i64::to_string: the decimal digits, most significant first.
RECURSIVE to_string(_)
to_string(n) ==
    IF n < 10 THEN <<n>> ELSE Append(to_string(n \div 10), n % 10)

DecimalValue_Zero(text) == 0

\* The integer that well-formed decimal text denotes: what SQLite stores when
\* a TEXT parameter goes into a column of INTEGER affinity ("item_id int"),
\* and what it reads from a numeric literal of a statement's text.
RECURSIVE DecimalValue(_)
DecimalValue(text) ==
    IF Len(text) = 1 THEN text[1]
    ELSE 10 * DecimalValue(SubSeq(text, 1, Len(text) - 1)) + text[Len(text)]

\* ---------------------------------------------------------------- engine
\* "primary key autoincrement": one more than the largest rowid ever used
\* (no row is ever deleted by lib.rs after construction).
AutoIncrement(rows) ==
    IF rows = <<>> THEN 1 ELSE MaxOf({rows[i].id : i \in DOMAIN rows}) + 1

UniqueViolation_Off(rows, d) == FALSE

\* constraint item_data_pk unique on item_val
UniqueViolation(rows, d) == \E i \in DOMAIN rows : rows[i].item_val = d

\* "insert into item_data (item_val) values(?1)"
ExecInsertItem(rows, d) ==
    Append(rows, [id |-> AutoIncrement(rows), item_val |-> d])

QueryIdByVal_Latest(rows, d) ==
    IF rows = <<>> THEN None ELSE Some(rows[Len(rows)].id)

\* "select id from item_data where item_val = ?1" through query_row: the
\* first row, or QueryReturnedNoRows (None).
QueryIdByVal(rows, d) ==
    LET hits == SelectSeq(rows, LAMBDA r : r.item_val = d)
    IN  IF hits = <<>> THEN None ELSE Some(hits[1].id)

ExecInsertColumn_RowId(rows, key, value, item_text) ==
    Append(rows, [id |-> AutoIncrement(rows), key |-> key, value |-> value,
                  item_id |-> AutoIncrement(rows)])

\* "insert into data_columns (key, value, item_id) values(?1, ?2, ?3)"
ExecInsertColumn(rows, key, value, item_text) ==
    Append(rows, [id |-> AutoIncrement(rows), key |-> key, value |-> value,
                  item_id |-> DecimalValue(item_text)])

RECURSIVE SelectDistinctKey_Unstable(_)
SelectDistinctKey_Unstable(rows) ==
    IF rows = <<>> THEN <<>>
    ELSE LET front == SelectDistinctKey_Unstable(SubSeq(rows, 1, Len(rows) - 1))
             k == rows[Len(rows)].key
         IN  IF k \in Range(front) THEN front
             ELSE IF last.op = "get_distinct_keys" THEN <<k>> \o front
             ELSE Append(front, k)

\* "select distinct key from data_columns": the keys in the order the scan
\* first meets them.
RECURSIVE SelectDistinctKey(_)
SelectDistinctKey(rows) ==
    IF rows = <<>> THEN <<>>
    ELSE LET front == SelectDistinctKey(SubSeq(rows, 1, Len(rows) - 1))
             k == rows[Len(rows)].key
         IN  IF k \in Range(front) THEN front ELSE Append(front, k)

\* "select count(item_val) from item_data"
CountItems(rows) == Cardinality({i \in DOMAIN rows : TRUE})

\* "select id from item_data": no ORDER BY, a scan of the table in rowid order.
SelectIds(rows) == [i \in DOMAIN rows |-> rows[i].id]

\* ---------------------------------------------------------------- results
Result(op, args, fault, ret, out) ==
    [op |-> op, args |-> args, fault |-> fault, ret |-> ret, out |-> out]

\* No export run has been started.
NoRun ==
    /\ phase = "Idle"
    /\ sink_kind = "none"
    /\ chunk_size = 0
    /\ columns = <<>>
    /\ all_ids = <<>>
    /\ ids_count = <<>>
    /\ cols = <<>>
    /\ done_order = <<>>
    /\ sink = <<>>
    /\ export_ret = "none"

\* TableMapDb::new: both tables empty, no current item.
Init ==
    /\ item_data = <<>>
    /\ data_columns = <<>>
    /\ current_id = None
    /\ last_insert_rowid = 0
    /\ last = Result("new", <<>>, <<>>, "Ok", <<>>)
    /\ current_row_iter = None
    /\ yielded = <<>>
    /\ NoRun

next_row_ClearsOnError(d, insertFault, selectFault) ==
    IF ~(insertFault \/ UniqueViolation(item_data, d))
    THEN /\ item_data' = ExecInsertItem(item_data, d)
         /\ last_insert_rowid' = AutoIncrement(item_data)
         /\ current_id' = Some(last_insert_rowid')
         /\ last' = Result("next_row", <<d>>, <<insertFault, selectFault>>,
                           "Ok", <<>>)
         /\ UNCHANGED data_columns
    ELSE LET found == IF selectFault THEN None ELSE QueryIdByVal(item_data, d)
         IN  /\ current_id' = found
             /\ last' = Result("next_row", <<d>>, <<insertFault, selectFault>>,
                               IF found # None THEN "Ok" ELSE "Err(rusqlite)",
                               <<>>)
             /\ UNCHANGED <<item_data, data_columns, last_insert_rowid>>

\* TableMapDb::next_row(d).  insertFault: the insert fails for a reason other
\* than the UNIQUE constraint; selectFault: the lookup itself fails.
next_row(d, insertFault, selectFault) ==
    IF ~(insertFault \/ UniqueViolation(item_data, d))
    THEN /\ item_data' = ExecInsertItem(item_data, d)
         /\ last_insert_rowid' = AutoIncrement(item_data)
         /\ current_id' = Some(last_insert_rowid')
         /\ last' = Result("next_row", <<d>>, <<insertFault, selectFault>>,
                           "Ok", <<>>)
         /\ UNCHANGED data_columns
    ELSE LET found == IF selectFault THEN None ELSE QueryIdByVal(item_data, d)
         IN  /\ IF found # None
                THEN /\ current_id' = found
                     /\ last' = Result("next_row", <<d>>,
                                       <<insertFault, selectFault>>, "Ok", <<>>)
                ELSE /\ current_id' = current_id
                     /\ last' = Result("next_row", <<d>>,
                                       <<insertFault, selectFault>>,
                                       "Err(rusqlite)", <<>>)
             /\ UNCHANGED <<item_data, data_columns, last_insert_rowid>>

NextRow ==
    /\ \E d \in Vals, insertFault \in BOOLEAN, selectFault \in BOOLEAN :
           next_row(d, insertFault, selectFault)
    /\ UNCHANGED <<exportVars, iterVars>>

\* TableMapDb::insert(column, val).  fault: the engine rejects the write.
insert(column, val, fault) ==
    IF current_id = None
    THEN /\ last' = Result("insert", <<column, val>>, <<fault>>,
                           "Err(No item is set)", <<>>)
         /\ UNCHANGED storeVars
    ELSE IF fault
    THEN /\ last' = Result("insert", <<column, val>>, <<fault>>,
                           "Err(rusqlite)", <<>>)
         /\ UNCHANGED storeVars
    ELSE /\ data_columns' = ExecInsertColumn(data_columns, column, val,
                                             to_string(Unwrap(current_id)))
         /\ last_insert_rowid' = AutoIncrement(data_columns)
         /\ last' = Result("insert", <<column, val>>, <<fault>>, "Ok", <<>>)
         /\ UNCHANGED <<item_data, current_id>>

Insert ==
    /\ Len(data_columns) < MaxAttrs
    /\ \E p \in Pairs, fault \in BOOLEAN : insert(p[1], p[2], fault)
    /\ UNCHANGED <<exportVars, iterVars>>

ExecBatch_StopAtFailure(rows, index_map, failed, item_text) ==
    LET good == {i \in DOMAIN index_map : \A j \in 1..i : j \notin failed}
        F[i \in 0..Len(index_map)] ==
            IF i = 0 THEN rows
            ELSE IF i \in good
                 THEN ExecInsertColumn(F[i - 1], index_map[i][1],
                                       index_map[i][2], item_text)
                 ELSE F[i - 1]
    IN  F[Len(index_map)]

\* The for_each of insert_batched: the prepared insert is executed once per
\* entry of the map, in the map's order; an execute that fails (the entries
\* whose index is in failed) is logged and the loop goes on.
ExecBatch(rows, index_map, failed, item_text) ==
    LET F[i \in 0..Len(index_map)] ==
            IF i = 0 THEN rows
            ELSE IF i \in failed THEN F[i - 1]
                 ELSE ExecInsertColumn(F[i - 1], index_map[i][1],
                                       index_map[i][2], item_text)
    IN  F[Len(index_map)]

\* TableMapDb::insert_batched(index_map).  prepFault: prepare_cached fails.
insert_batched(index_map, prepFault, failed) ==
    IF current_id = None
    THEN /\ last' = Result("insert_batched", <<index_map>>,
                           <<prepFault, failed>>,
                           "Err(GenericError(No Item is set))", <<>>)
         /\ UNCHANGED storeVars
    ELSE IF prepFault
    THEN /\ last' = Result("insert_batched", <<index_map>>,
                           <<prepFault, failed>>,
                           "Err(GenericError(Failed to create statement))",
                           <<>>)
         /\ UNCHANGED storeVars
    ELSE /\ data_columns' = ExecBatch(data_columns, index_map, failed,
                                      to_string(Unwrap(current_id)))
         /\ last_insert_rowid' =
                IF data_columns' = data_columns THEN last_insert_rowid
                ELSE data_columns'[Len(data_columns')].id
         /\ last' = Result("insert_batched", <<index_map>>,
                           <<prepFault, failed>>, "Ok", <<>>)
         /\ UNCHANGED <<item_data, current_id>>

\* IndexMap<String, String>: ordered entries, no key twice.
IndexMaps ==
    {m \in UNION {[1..n -> Pairs] : n \in 0..MaxPairs} :
        \A i, j \in DOMAIN m : i # j => m[i][1] # m[j][1]}

InsertBatched ==
    \E index_map \in IndexMaps :
        /\ Len(data_columns) + Len(index_map) <= MaxAttrs
        /\ \E prepFault \in BOOLEAN, failed \in SUBSET DOMAIN index_map :
               insert_batched(index_map, prepFault, failed)
        /\ UNCHANGED <<exportVars, iterVars>>

\* lines 204-213 of get_distinct_keys: priority_cols, then each scanned key
\* that priority_cols does not contain.
ExtendPriority(priority_cols, keys) ==
    priority_cols \o SelectSeq(keys, LAMBDA k : k \notin Range(priority_cols))

\* TableMapDb::get_distinct_keys(priority_cols).  fault: query_map fails.
get_distinct_keys(priority_cols, fault) ==
    /\ last' = IF fault
               THEN Result("get_distinct_keys", <<priority_cols>>, <<fault>>,
                           "Err(GenericError)", <<>>)
               ELSE Result("get_distinct_keys", <<priority_cols>>, <<fault>>,
                           "Ok",
                           ExtendPriority(priority_cols,
                                          SelectDistinctKey(data_columns)))
    /\ UNCHANGED storeVars

PriorityLists == UNION {[1..n -> PrioKeys] : n \in 0..MaxPrio}

GetDistinctKeys ==
    /\ \E priority_cols \in PriorityLists, fault \in BOOLEAN :
           get_distinct_keys(priority_cols, fault)
    /\ UNCHANGED <<exportVars, iterVars>>

\* TableMapDb::how_many_items.  fault: query_row fails.
how_many_items(fault) ==
    /\ last' = IF fault
               THEN Result("how_many_items", <<>>, <<fault>>,
                           "Err(GenericError)", <<>>)
               ELSE Result("how_many_items", <<>>, <<fault>>, "Ok",
                           <<CountItems(item_data)>>)
    /\ UNCHANGED storeVars

HowManyItems ==
    /\ \E fault \in BOOLEAN : how_many_items(fault)
    /\ UNCHANGED <<exportVars, iterVars>>

\* TableMapDb::item_ids
item_ids ==
    /\ last' = Result("item_ids", <<>>, <<>>, "Ok", SelectIds(item_data))
    /\ UNCHANGED storeVars

ItemIds ==
    /\ item_ids
    /\ UNCHANGED <<exportVars, iterVars>>

Next ==
    \/ NextRow
    \/ Insert
    \/ InsertBatched
    \/ GetDistinctKeys
    \/ HowManyItems
    \/ ItemIds

Spec == Init /\ [][Next]_vars

\* ------------------------------------------------------------ pivot worker
Chunks_Exact(ids, size) ==
    [c \in 1..(Len(ids) \div size) |->
        SubSeq(ids, (c - 1) * size + 1, c * size)]

\* slice::chunks(size), size > 0: consecutive slices of size elements, the
\* last one shorter when the length is no multiple of size.
RECURSIVE Chunks(_, _)
Chunks(ids, size) ==
    IF ids = <<>> THEN <<>>
    ELSE IF Len(ids) <= size THEN <<ids>>
    ELSE <<SubSeq(ids, 1, size)>> \o Chunks(SubSeq(ids, size + 1, Len(ids)), size)

OrderByItemId_ScanOrder(rows, keys) == rows

\* The sorter of "order by item_id": ascending item_id, rows of one item_id
\* in the order the scan delivered them.
RECURSIVE OrderByItemId(_, _)
OrderByItemId(rows, keys) ==
    IF keys = {} THEN <<>>
    ELSE LET k == MinOf(keys)
         IN  SelectSeq(rows, LAMBDA r : r.item_id = k)
                 \o OrderByItemId(rows, keys \ {k})

QueryChunk_NoWhere(rows, ids) ==
    OrderByItemId(rows, {rows[i].item_id : i \in DOMAIN rows})

\* "select item_id, key, value from data_columns where item_id in(<ids>)
\*  order by item_id", the ids written into the text by to_string and join.
QueryChunk(rows, ids) ==
    LET in_list == {DecimalValue(to_string(ids[i])) : i \in DOMAIN ids}
        hit == SelectSeq(rows, LAMBDA r : r.item_id \in in_list)
    IN  OrderByItemId(hit, {hit[i].item_id : i \in DOMAIN hit})

\* IndexMap<K, V> as its entries <<k, v>> in insertion order.
IndexMapHas(im, k) == \E i \in DOMAIN im : im[i][1] = k

IndexMapGet(im, k) ==
    IF IndexMapHas(im, k)
    THEN Some(im[CHOOSE i \in DOMAIN im : im[i][1] = k][2])
    ELSE None

IndexMapInsert_KeepFirst(im, k, v) ==
    IF IndexMapHas(im, k) THEN im ELSE Append(im, <<k, v>>)

\* IndexMap::insert: a key already present keeps its place and takes the new
\* value; a new key is appended.
IndexMapInsert(im, k, v) ==
    IF IndexMapHas(im, k)
    THEN [i \in DOMAIN im |-> IF im[i][1] = k THEN <<k, v>> ELSE im[i]]
    ELSE Append(im, <<k, v>>)

\* Option<&String>::cloned().unwrap_or_default()
UnwrapOrDefault(o) == IF o = None THEN "" ELSE Unwrap(o)

\* The closure of query_map (lines 393-407) on one row: entry(item_id),
\* and_modify(insert key, val), or_insert_with(a map holding key, val).
GroupRow(im_dd, r) ==
    IF IndexMapHas(im_dd, r.item_id)
    THEN IndexMapInsert(im_dd, r.item_id,
             IndexMapInsert(Unwrap(IndexMapGet(im_dd, r.item_id)),
                            r.key, r.value))
    ELSE IndexMapInsert(im_dd, r.item_id,
             IndexMapInsert(<<>>, r.key, r.value))

\* im_dd after the whole scan has been collected.
GroupRows(scan) ==
    LET F[i \in 0..Len(scan)] ==
            IF i = 0 THEN <<>> ELSE GroupRow(F[i - 1], scan[i])
    IN  F[Len(scan)]

PrepCols_SkipMissing(cs, im) ==
    LET present == SelectSeq(cs, LAMBDA k : IndexMapHas(im, k))
    IN  [i \in DOMAIN present |-> Unwrap(IndexMapGet(im, present[i]))]

\* prep_cols (lines 412-415): one field per column, "" for a key the item
\* does not have.
PrepCols(cs, im) ==
    [i \in DOMAIN cs |-> UnwrapOrDefault(IndexMapGet(im, cs[i]))]

\* read_db_chunked once its connection is open and its statement prepared:
\* one row per entry of im_dd, in im_dd's order.
ReadChunk(rows, cs, ids) ==
    LET im_dd == GroupRows(QueryChunk(rows, ids))
    IN  [i \in DOMAIN im_dd |-> PrepCols(cs, im_dd[i][2])]

\* ------------------------------------------------------- seeded stores
SeedItems(n) ==
    LET F[i \in 0..n] ==
            IF i = 0 THEN <<>> ELSE ExecInsertItem(F[i - 1], SeedVals[i])
    IN  F[n]

\* attrs: a sequence of <<pair, item id>>, in the order they were attached.
SeedColumns(attrs) ==
    LET F[i \in 0..Len(attrs)] ==
            IF i = 0 THEN <<>>
            ELSE ExecInsertColumn(F[i - 1], attrs[i][1][1], attrs[i][1][2],
                                  to_string(attrs[i][2]))
    IN  F[Len(attrs)]

SeedAttrs(n) == UNION {[1..m -> Pairs \X (1..n)] : m \in 0..MaxSeedAttrs}

SeedStore(n, attrs) == [n |-> n, attrs |-> attrs]

\* The store of the end-to-end example: apple {color: red}, pear {color:
\* green, shape: oval}.
EndToEndStore ==
    SeedStore(2, << <<(<<"color", "red">>), 1>>,
                    <<(<<"color", "green">>), 2>>,
                    <<(<<"shape", "oval">>), 2>> >>)

\* The store of the last-write-wins example: one item given (color, red),
\* then (color, blue).
LastWriteStore ==
    SeedStore(1, << <<(<<"color", "red">>), 1>>,
                    <<(<<"color", "blue">>), 1>> >>)

\* Three items with one attribute each, attached to pear, then apple, then
\* fig: data_columns does not hold them in id order.
OrderStore ==
    SeedStore(3, << <<(<<"color", "green">>), 2>>,
                    <<(<<"color", "red">>), 1>>,
                    <<(<<"shape", "oval">>), 3>> >>)

SeedStores ==
    UNION {{SeedStore(n, attrs) : attrs \in SeedAttrs(n)} :
              n \in 0..Len(SeedVals)}
        \cup {EndToEndStore, LastWriteStore, OrderStore}

\* A store the producer can leave behind: the first n items of SeedVals
\* created in order, then attributes attached to them in any order (next_row
\* of an existing value selects it again), the last item selected last.
ExportInit ==
    /\ \E st \in SeedStores :
            /\ item_data = SeedItems(st.n)
            /\ data_columns = SeedColumns(st.attrs)
            /\ current_id = IF st.n = 0 THEN None ELSE Some(st.n)
            /\ last_insert_rowid =
                   IF Len(st.attrs) > 0 THEN Len(st.attrs) ELSE st.n
            /\ last = IF st.n = 0 THEN Result("new", <<>>, <<>>, "Ok", <<>>)
                      ELSE Result("next_row", <<SeedVals[st.n]>>,
                                  <<FALSE, FALSE>>, "Ok", <<>>)
    /\ current_row_iter = None
    /\ yielded = <<>>
    /\ NoRun

\* ------------------------------------------------------------ export run
HasDuplicates(s) == \E i, j \in DOMAIN s : i # j /\ s[i] = s[j]

Entry_AllRows(kind, fields) == [kind |-> "row", fields |-> fields]

\* What the sink is handed: the header record (write_record(&columns)) or
\* the schema (create table products) first, then data rows.
Entry(kind, fields) == [kind |-> kind, fields |-> fields]

\* dump_csv up to the call of proc_ids (lines 270-282).  fault "open": the
\* csv writer cannot be created; "keys": get_distinct_keys returns Err.
\* Both are returned to the caller by "?".  chunks(0) panics.
dump_csv_begin(size, priority, fault) ==
    /\ sink_kind' = "csv"
    /\ chunk_size' = size
    /\ UNCHANGED <<cols, done_order>>
    /\ IF fault = "open"
       THEN /\ phase' = "Failed"
            /\ export_ret' = "Err(CsvError)"
            /\ UNCHANGED <<columns, all_ids, ids_count, sink>>
       ELSE IF fault = "keys"
       THEN /\ phase' = "Failed"
            /\ export_ret' = "Err(GenericError)"
            /\ UNCHANGED <<columns, all_ids, ids_count, sink>>
       ELSE /\ columns' = ExtendPriority(priority,
                                         SelectDistinctKey(data_columns))
            /\ all_ids' = SelectIds(item_data)
            /\ IF size = 0
               THEN /\ phase' = "Panicked"
                    /\ export_ret' = "panic"
                    /\ UNCHANGED <<ids_count, sink>>
               ELSE /\ ids_count' = Chunks(all_ids', size)
                    /\ sink' = <<Entry("header", columns')>>
                    /\ phase' = "ColumnsDiscovered"
                    /\ export_ret' = "none"

\* dump_db up to the call of proc_ids (lines 304-336).  Every failure here
\* is unwrapped: opening the destination, get_distinct_keys, and "create
\* table products (...)", which the engine rejects for an empty column list
\* and for a column named twice.  chunks(0) panics.
dump_db_begin(size, priority, fault) ==
    /\ sink_kind' = "db"
    /\ chunk_size' = size
    /\ UNCHANGED <<cols, done_order>>
    /\ IF fault # "none"
       THEN /\ phase' = "Panicked"
            /\ export_ret' = "panic"
            /\ UNCHANGED <<columns, all_ids, ids_count, sink>>
       ELSE /\ columns' = ExtendPriority(priority,
                                         SelectDistinctKey(data_columns))
            /\ IF columns' = <<>> \/ HasDuplicates(columns')
               THEN /\ phase' = "Panicked"
                    /\ export_ret' = "panic"
                    /\ UNCHANGED <<all_ids, ids_count, sink>>
               ELSE /\ sink' = <<Entry("schema", columns')>>
                    /\ all_ids' = SelectIds(item_data)
                    /\ IF size = 0
                       THEN /\ phase' = "Panicked"
                            /\ export_ret' = "panic"
                            /\ UNCHANGED ids_count
                       ELSE /\ ids_count' = Chunks(all_ids', size)
                            /\ phase' = "ColumnsDiscovered"
                            /\ export_ret' = "none"

ExportPriorityLists ==
    UNION {[1..n -> ExportPrioKeys] : n \in 0..MaxExportPrio}

BeginFaults == {"none", "open", "keys"}

DumpCsvBegin ==
    /\ phase = "Idle"
    /\ \E size \in 0..MaxChunkSize, priority \in ExportPriorityLists,
          fault \in BeginFaults :
           dump_csv_begin(size, priority, fault)
    /\ UNCHANGED <<storeVars, iterVars, last>>

DumpDbBegin ==
    /\ phase = "Idle"
    /\ \E size \in 0..MaxChunkSize, priority \in ExportPriorityLists,
          fault \in BeginFaults :
           dump_db_begin(size, priority, fault)
    /\ UNCHANGED <<storeVars, iterVars, last>>

\* A task of the JoinSet: the arguments read_db_chunked was spawned with,
\* where it stands, what it returned and the error it logged, if any.
Task(ids, cs, state, out, logged) ==
    [ids |-> ids, columns |-> cs, state |-> state, out |-> out,
     logged |-> logged]

proc_ids_FirstOnly(set, chunks, cs) ==
    IF chunks = <<>> THEN set
    ELSE Append(set, Task(chunks[1], cs, "spawned", <<>>, ""))

\* proc_ids (lines 350-367): every chunk of the iterator is copied into a
\* new task of the JoinSet, with a clone of the column list, in the
\* iterator's order; the function has no await and returns the set.
proc_ids(set, chunks, cs) ==
    set \o [ii \in DOMAIN chunks |-> Task(chunks[ii], cs, "spawned", <<>>, "")]

ProcIds ==
    /\ phase = "ColumnsDiscovered"
    /\ cols' = proc_ids(cols, ids_count, columns)
    /\ ids_count' = <<>>
    /\ phase' = "WorkersLaunched"
    /\ UNCHANGED <<storeVars, iterVars, last, sink_kind, chunk_size, columns, all_ids,
                   done_order, sink, export_ret>>

read_db_chunked_ReadsCursor(t, outcome) ==
    IF outcome = "open"
    THEN Task(t.ids, t.columns, "finished", <<>>, "open")
    ELSE IF outcome = "prepare"
    THEN Task(t.ids, t.columns, "panicked", <<>>, "")
    ELSE Task(t.ids, t.columns, "finished",
              ReadChunk(data_columns, t.columns, current_id), "")

read_db_chunked_ReadsAnyway(t, outcome) ==
    IF outcome = "prepare"
    THEN Task(t.ids, t.columns, "panicked", <<>>, "")
    ELSE Task(t.ids, t.columns, "finished",
              ReadChunk(data_columns, t.columns, t.ids),
              IF outcome = "open" THEN "open" ELSE "")

\* read_db_chunked, which has no await and so runs to its end once polled.
\* outcome "open": the read-only connection cannot be opened, the task
\* returns vec![]; "prepare": prepare or query_map fails and is unwrapped,
\* the task panics; "rows": the task returns its rows.
read_db_chunked(t, outcome) ==
    IF outcome = "open"
    THEN Task(t.ids, t.columns, "finished", <<>>, "open")
    ELSE IF outcome = "prepare"
    THEN Task(t.ids, t.columns, "panicked", <<>>, "")
    ELSE Task(t.ids, t.columns, "finished",
              ReadChunk(data_columns, t.columns, t.ids), "")

TaskOutcomes == {"rows", "open", "prepare"}

\* The runtime polls a spawned task; a task of a JoinSet that was dropped
\* (the driver panicked) is cancelled and never polled.
TaskRun ==
    /\ phase \in {"WorkersLaunched", "Draining"}
    /\ \E i \in DOMAIN cols, outcome \in TaskOutcomes :
        /\ cols[i].state = "spawned"
        /\ cols' = [cols EXCEPT ![i] = read_db_chunked(cols[i], outcome)]
        /\ done_order' = Append(done_order, i)
    /\ UNCHANGED <<storeVars, iterVars, last, phase, sink_kind, chunk_size, columns,
                   all_ids, ids_count, sink, export_ret>>

\* The write_record / execute calls of one batch: one per row, in the
\* batch's order.  A call that fails is logged and the loop goes on, so the
\* calls made do not depend on what the destination does with them.
WriteBatch(rows) == [i \in DOMAIN rows |-> Entry("row", rows[i])]

\* One turn of "while let Some(c) = cols.join_next().await" (lines 285-292,
\* 338-345): None once the set is empty; otherwise the task that ended
\* first is taken out of the set, its result is unwrapped and its rows go
\* to the sink.  Unwrapping the JoinError of a task that panicked panics the
\* driver, and the unwinding drops the JoinSet with the tasks left in it.
JoinNext ==
    /\ phase \in {"WorkersLaunched", "Draining"}
    /\ IF \A i \in DOMAIN cols : cols[i].state = "joined"
       THEN /\ phase' = "Complete"
            /\ export_ret' = "Ok"
            /\ UNCHANGED <<cols, done_order, sink>>
       ELSE /\ done_order # <<>>
            /\ LET i == Head(done_order)
               IN  IF cols[i].state = "panicked"
                   THEN /\ phase' = "Aborted"
                        /\ export_ret' = "panic"
                        /\ cols' = <<>>
                        /\ done_order' = <<>>
                        /\ UNCHANGED sink
                   ELSE /\ phase' = "Draining"
                        /\ export_ret' = export_ret
                        /\ cols' = [cols EXCEPT ![i] =
                               Task(cols[i].ids, cols[i].columns, "joined", <<>>,
                                    cols[i].logged)]
                        /\ done_order' = Tail(done_order)
                        /\ sink' = sink \o WriteBatch(cols[i].out)
    /\ UNCHANGED <<storeVars, iterVars, last, sink_kind, chunk_size, columns, all_ids,
                   ids_count>>

ExportNext ==
    \/ DumpCsvBegin
    \/ DumpDbBegin
    \/ ProcIds
    \/ TaskRun
    \/ JoinNext

ExportSpec == ExportInit /\ [][ExportNext]_vars

\* ---------------------------------------------------------------- iterator
\* (key, value) pairs attached while the store is iterated: one of the keys
\* is "id", the name of the entry next() puts first.
IterPairs == {<<"color", "red">>, <<"color", "green">>, <<"id", "x">>}

OrderByIdDesc_Asc(rows) == [i \in DOMAIN rows |-> rows[i].id]

\* "select id, item_val from item_data order by id desc", column 0 collected.
RECURSIVE OrderByIdDesc(_)
OrderByIdDesc(rows) ==
    IF rows = <<>> THEN <<>>
    ELSE LET m == MaxOf({rows[i].id : i \in DOMAIN rows})
         IN  <<m>> \o OrderByIdDesc(SelectSeq(rows, LAMBDA r : r.id # m))

\* "select key, value from data_columns where item_id = ?1": a scan of the
\* table in rowid order.
QueryByItemId(rows, n) == SelectSeq(rows, LAMBDA r : r.item_id = n)

\* The IndexMap of lines 252-257: "id" first, then each row's key and value.
ItemMap(rows, n) ==
    LET F[i \in 0..Len(rows)] ==
            IF i = 0 THEN IndexMapInsert(<<>>, "id", to_string(n))
            ELSE IndexMapInsert(F[i - 1], rows[i].key, rows[i].value)
    IN  F[Len(rows)]

\* Iterator::next.  The first call collects the ids; every call pops the
\* last id of what is left and returns its map, or None when nothing is left.
next ==
    LET nn == IF current_row_iter = None THEN OrderByIdDesc(item_data)
              ELSE Unwrap(current_row_iter)
    IN  /\ IF nn # <<>>
           THEN LET n == nn[Len(nn)]
                IN  /\ current_row_iter' = Some(SubSeq(nn, 1, Len(nn) - 1))
                    /\ yielded' = Append(yielded, n)
                    /\ last' = Result("next", <<>>, <<>>, "Some",
                                  ItemMap(QueryByItemId(data_columns, n), n))
           ELSE /\ current_row_iter' = Some(nn)
                /\ yielded' = yielded
                /\ last' = Result("next", <<>>, <<>>, "None", <<>>)
        /\ UNCHANGED storeVars

IterNext ==
    /\ next
    /\ UNCHANGED exportVars

\* insert while the store is iterated, "id" among the keys.
IterInsert ==
    /\ Len(data_columns) < MaxAttrs
    /\ \E p \in IterPairs : insert(p[1], p[2], FALSE)
    /\ UNCHANGED <<exportVars, iterVars>>

\* The producer goes on creating and selecting items and attaching
\* attributes between the calls of next().
IterNextStep ==
    \/ NextRow
    \/ IterInsert
    \/ IterNext

IterSpec == Init /\ [][IterNextStep]_vars

\* ================================================================ claims
\* Shapes shared by the statements below.
IsPrefix(s, t) == Len(s) <= Len(t) /\ SubSeq(t, 1, Len(s)) = s

ItemsWithVal(rows, v) == {i \in DOMAIN rows : rows[i].item_val = v}

\* A row of data_columns without its own rowid.
Attr(r) == [key |-> r.key, value |-> r.value, item_id |-> r.item_id]

\* ---------------------------------------------------------------- C1
\* C1: after any sequence of next_row, insert and insert_batched calls, no
\* two rows of item_data hold the same item_val.
C1_UniqueItemValues ==
    \A i, j \in DOMAIN item_data :
        i # j => item_data[i].item_val # item_data[j].item_val

\* Every value has been created, attributes were attached, and a next_row
\* of the first value, stored already, has just been resolved.
C1_Witness ==
    /\ last.op = "next_row"
    /\ last.ret = "Ok"
    /\ Len(item_data) = Cardinality(Vals)
    /\ current_id = Some(item_data[1].id)
    /\ last.args = <<item_data[1].item_val>>
    /\ data_columns # <<>>

\* ---------------------------------------------------------------- C2
\* The step is a call next_row(v).
C2_Call == last'.op = "next_row"

C2_Step ==
    LET v == last'.args[1]
        insertFault == last'.fault[1]
        selectFault == last'.fault[2]
        had == ItemsWithVal(item_data, v)
        has == ItemsWithVal(item_data', v)
    IN  \* v not stored, and the engine executes the insert: exactly one item
        \* is created, it holds v under an id no item had, and it is current.
        /\ (had = {} /\ ~insertFault) =>
               /\ last'.ret = "Ok"
               /\ Len(item_data') = Len(item_data) + 1
               /\ IsPrefix(item_data, item_data')
               /\ item_data'[Len(item_data')].item_val = v
               /\ \A i \in DOMAIN item_data :
                      item_data[i].id # item_data'[Len(item_data')].id
               /\ current_id' = Some(item_data'[Len(item_data')].id)
        \* v stored: no item is created, the count stays, and, the lookup
        \* executed, the id v already had is current.
        /\ had # {} =>
               /\ item_data' = item_data
               /\ ~selectFault =>
                      /\ last'.ret = "Ok"
                      /\ \E i \in had : current_id' = Some(item_data[i].id)
        \* Whenever the call returns Ok, the cursor is the id of the one item
        \* holding v.
        /\ last'.ret = "Ok" =>
               /\ Cardinality(has) = 1
               /\ \A i \in has : current_id' = Some(item_data'[i].id)
        \* A call that returns Err creates nothing and keeps the cursor.
        /\ last'.ret # "Ok" =>
               /\ item_data' = item_data
               /\ current_id' = current_id

\* C2: next_row(v) is idempotent.  v not stored: exactly one item is created
\* and the cursor is its new id.  v stored: nothing is created, the count is
\* unchanged and the cursor is the id v already had.  No call of any method
\* removes or changes a row of item_data, so two next_row(v) calls, whatever
\* is called between them, resolve to the same id.  (A call the engine fails
\* returns Err, creates nothing and keeps the cursor.)
C2_SelectOrCreateIdempotent ==
    [][/\ IsPrefix(item_data, item_data')
       /\ C2_Call => C2_Step]_vars

\* The second value was created and given an attribute, then next_row of
\* the first value resolved to the id it got when it was created.
C2_Witness ==
    /\ last.op = "next_row"
    /\ last.ret = "Ok"
    /\ last.fault = <<FALSE, FALSE>>
    /\ Len(item_data) = 2
    /\ last.args = <<item_data[1].item_val>>
    /\ current_id = Some(1)
    /\ \E i \in DOMAIN data_columns : data_columns[i].item_id = 2

\* ---------------------------------------------------------------- C3
C3_Call == last'.op = "insert"

C3_Step ==
    LET fault == last'.fault[1]
    IN  \* No current item: the "no item" error, and nothing changes.
        /\ current_id = None =>
               /\ last'.ret = "Err(No item is set)"
               /\ UNCHANGED <<item_data, data_columns, current_id>>
        \* A current item, and the engine executes the insert: exactly one
        \* row (column, val) is appended, tied to the current item.
        /\ (current_id # None /\ ~fault) =>
               /\ last'.ret = "Ok"
               /\ Len(data_columns') = Len(data_columns) + 1
               /\ IsPrefix(data_columns, data_columns')
               /\ Attr(data_columns'[Len(data_columns')]) =
                      [key |-> last'.args[1], value |-> last'.args[2],
                       item_id |-> Unwrap(current_id)]
               /\ UNCHANGED <<item_data, current_id>>
        \* A current item, and the engine rejects the insert: another error,
        \* and nothing is written.
        /\ (current_id # None /\ fault) =>
               /\ last'.ret = "Err(rusqlite)"
               /\ UNCHANGED <<item_data, data_columns, current_id>>

\* C3: insert(column, val) with no current item fails with the "no item is
\* set" error and leaves data_columns, item_data and current_id unchanged;
\* with a current item it appends exactly one row (column, val) whose
\* item_id is the current id (unless the engine itself rejects the write,
\* which is returned as a different error and writes nothing).
C3_AttachNeedsCurrentItem == [][C3_Call => C3_Step]_vars

\* insert was called on a new store and refused.
C3_Witness ==
    /\ last.op = "insert"
    /\ last.ret = "Err(No item is set)"
    /\ current_id = None
    /\ item_data = <<>>
    /\ data_columns = <<>>

\* ---------------------------------------------------------------- C4
C4_Call == last'.op = "insert_batched"

\* The entries of the map whose write did not fail, in the map's order.
C4_Kept(index_map, failed) ==
    SelectSeq([i \in DOMAIN index_map |-> <<i, index_map[i]>>],
              LAMBDA e : e[1] \notin failed)

C4_Step ==
    LET index_map == last'.args[1]
        prepFault == last'.fault[1]
        failed == last'.fault[2]
        kept == C4_Kept(index_map, failed)
    IN  /\ current_id = None =>
               /\ last'.ret = "Err(GenericError(No Item is set))"
               /\ UNCHANGED <<item_data, data_columns, current_id>>
        /\ (current_id # None /\ ~prepFault) =>
               /\ last'.ret = "Ok"
               /\ Len(data_columns') = Len(data_columns) + Len(kept)
               /\ IsPrefix(data_columns, data_columns')
               /\ \A j \in DOMAIN kept :
                      Attr(data_columns'[Len(data_columns) + j]) =
                          [key |-> kept[j][2][1], value |-> kept[j][2][2],
                           item_id |-> Unwrap(current_id)]
               /\ UNCHANGED <<item_data, current_id>>
        /\ (current_id # None /\ prepFault) =>
               /\ last'.ret = "Err(GenericError(Failed to create statement))"
               /\ UNCHANGED <<item_data, data_columns, current_id>>

\* C4: insert_batched with no current item fails and writes nothing.  With a
\* current item (and its statement prepared) every entry is applied on its
\* own, in order: an entry whose write fails is skipped, every other entry is
\* appended to the current item, and the call returns Ok whether or not
\* entries were dropped.
C4_BatchIsBestEffort == [][C4_Call => C4_Step]_vars

\* A batch of two entries whose first write failed returned Ok and the
\* second entry is the newest row of the store.
C4_Witness ==
    /\ last.op = "insert_batched"
    /\ last.ret = "Ok"
    /\ Len(last.args[1]) = 2
    /\ last.fault = <<FALSE, {1}>>
    /\ data_columns # <<>>
    /\ Attr(data_columns[Len(data_columns)]) =
           [key |-> last.args[1][2][1], value |-> last.args[1][2][2],
            item_id |-> Unwrap(current_id)]

\* ---------------------------------------------------------------- C5
\* s with every later repetition of an element removed.
RECURSIVE Dedup(_)
Dedup(s) ==
    IF s = <<>> THEN <<>>
    ELSE LET front == Dedup(SubSeq(s, 1, Len(s) - 1))
         IN  IF s[Len(s)] \in Range(front) THEN front
             ELSE Append(front, s[Len(s)])

NoRepeat(s) == \A i, j \in DOMAIN s : i # j => s[i] # s[j]

\* C5: get_distinct_keys(priority) returns priority deduplicated in place
\* order, followed by every key of data_columns that is not in priority;
\* every key occurs exactly once in the result.
C5_DistinctKeysDedups ==
    (last.op = "get_distinct_keys" /\ last.ret = "Ok") =>
        LET priority == last.args[1]
            head == Dedup(priority)
            out == last.out
        IN  /\ IsPrefix(head, out)
            /\ Range(SubSeq(out, Len(head) + 1, Len(out))) =
                   {data_columns[i].key : i \in DOMAIN data_columns}
                       \ Range(priority)
            /\ NoRepeat(out)

\* ------------------------------------------------ the store, read directly
\* What the statements about an export compare its output with: the tables
\* themselves, not the worker's operators.
EntityIds == {item_data[i].id : i \in DOMAIN item_data}

AttrRows(e, k) ==
    {i \in DOMAIN data_columns :
        data_columns[i].item_id = e /\ data_columns[i].key = k}

HasAttrs(e) == \E i \in DOMAIN data_columns : data_columns[i].item_id = e

ValuesOf(e, k) == {data_columns[i].value : i \in AttrRows(e, k)}

\* The value of the attribute (e, k) attached last.
LastValue(e, k) == data_columns[MaxOf(AttrRows(e, k))].value

ExpectedRow(cs, e) ==
    [c \in DOMAIN cs |->
        IF AttrRows(e, cs[c]) = {} THEN "" ELSE LastValue(e, cs[c])]

RECURSIVE Ascending(_)
Ascending(S) ==
    IF S = {} THEN <<>> ELSE <<MinOf(S)>> \o Ascending(S \ {MinOf(S)})

RECURSIVE Flatten(_)
Flatten(ss) == IF ss = <<>> THEN <<>> ELSE Head(ss) \o Flatten(Tail(ss))

BagOf(s) == [x \in Range(s) |-> Cardinality({i \in DOMAIN s : s[i] = x})]

\* The data rows the sink was handed, in call order.
SinkRows ==
    LET rows == SelectSeq(sink, LAMBDA e : e.kind = "row")
    IN  [i \in DOMAIN rows |-> rows[i].fields]

\* ---------------------------------------------------------------- C6
\* The slices of the run: the iterator before proc_ids, the tasks' chunks
\* after it.
C6_Slices ==
    IF phase = "ColumnsDiscovered" THEN ids_count
    ELSE [t \in DOMAIN cols |-> cols[t].ids]

\* C6: for chunk_size > 0 the ids are cut into ceil(len / chunk_size)
\* contiguous slices, each of chunk_size ids except possibly the last, whose
\* concatenation is the id list, so every item id is in exactly one chunk;
\* the driver spawns exactly one task per chunk, none for an empty store.
C6_ChunkPlan ==
    phase \in {"ColumnsDiscovered", "WorkersLaunched", "Draining", "Complete"}
    => LET sl == C6_Slices
           n == Len(all_ids)
       IN  /\ chunk_size > 0
           /\ Len(sl) = (n + chunk_size - 1) \div chunk_size
           /\ \A c \in DOMAIN sl :
                  /\ c < Len(sl) => Len(sl[c]) = chunk_size
                  /\ c = Len(sl) => Len(sl[c]) = n - (Len(sl) - 1) * chunk_size
                  /\ Len(sl[c]) \in 1..chunk_size
           /\ Flatten(sl) = all_ids
           /\ \A e \in EntityIds :
                  Cardinality({<<c, j>> \in (DOMAIN sl) \X (1..chunk_size) :
                      j <= Len(sl[c]) /\ sl[c][j] = e}) = 1
           /\ phase # "ColumnsDiscovered" =>
                  /\ Len(cols) = (Len(item_data) + chunk_size - 1) \div chunk_size
                  /\ item_data = <<>> => cols = <<>>

\* Three items in chunks of two: a full chunk and the remainder, one task each.
C6_Witness ==
    /\ phase = "WorkersLaunched"
    /\ Len(item_data) = 3
    /\ chunk_size = 2
    /\ Len(cols) = 2
    /\ cols[1].ids = <<1, 2>>
    /\ cols[2].ids = <<3>>

\* ---------------------------------------------------------------- C7
\* r has one field per column of the run; the field of a key the item has is
\* a value the item has for it, the field of a key it lacks is "".
C7_RowFits(r, e) ==
    /\ Len(r) = Len(columns)
    /\ \A c \in DOMAIN columns :
           IF ValuesOf(e, columns[c]) = {} THEN r[c] = ""
           ELSE r[c] \in ValuesOf(e, columns[c])

\* C7: every row a task returns and every row the driver hands to the sink
\* has exactly Len(columns) fields, field c being the item's value for
\* columns[c], or "" when the item has no attribute with that key.
C7_RowsComplete ==
    /\ \A t \in DOMAIN cols : \A j \in DOMAIN cols[t].out :
           \E e \in Range(cols[t].ids) : C7_RowFits(cols[t].out[j], e)
    /\ \A i \in DOMAIN SinkRows :
           \E e \in EntityIds : C7_RowFits(SinkRows[i], e)

\* A finished run handed over a row of two columns with one key missing.
C7_Witness ==
    /\ phase = "Complete"
    /\ Len(columns) = 2
    /\ \E i \in DOMAIN SinkRows :
           /\ Len(SinkRows[i]) = 2
           /\ \E c, d \in 1..2 : SinkRows[i][c] = "" /\ SinkRows[i][d] # ""

\* ---------------------------------------------------------------- C8
\* C8: last write wins.  The rows of a task that read its chunk are the rows
\* of the chunk's items that have attributes, in ascending id, and a column
\* whose key the item holds (once or several times) carries the value
\* attached last; every row handed to the sink is such a row of some item.
\* The store still holds every attribute row: an export writes no table.
C8_LastWriteWins ==
    /\ \A t \in DOMAIN cols :
           (cols[t].state = "finished" /\ cols[t].logged = "") =>
               LET es == Ascending({e \in Range(cols[t].ids) : HasAttrs(e)})
               IN  /\ Len(cols[t].out) = Len(es)
                   /\ \A j \in DOMAIN es : \A c \in DOMAIN columns :
                          AttrRows(es[j], columns[c]) # {} =>
                              cols[t].out[j][c] = LastValue(es[j], columns[c])
    /\ \A i \in DOMAIN SinkRows :
           \E e \in EntityIds :
               HasAttrs(e) /\ SinkRows[i] = ExpectedRow(columns, e)

\* The example: one item given (color, red) then (color, blue) is exported
\* as color = blue, and data_columns holds both rows.
C8_Witness ==
    /\ phase = "Complete"
    /\ Len(data_columns) = 2
    /\ Attr(data_columns[1]) = [key |-> "color", value |-> "red", item_id |-> 1]
    /\ Attr(data_columns[2]) = [key |-> "color", value |-> "blue", item_id |-> 1]
    /\ columns = <<"color">>
    /\ SinkRows = << <<"blue">> >>

\* ---------------------------------------------------------------- C9
C9_NoWorkerFailed == \A t \in DOMAIN cols : cols[t].logged = ""

\* One row for each item that has an attribute, none for the others.
C9_ExpectedBag ==
    LET es == {e \in EntityIds : HasAttrs(e)}
        rows == {ExpectedRow(columns, e) : e \in es}
    IN  [r \in rows |->
            Cardinality({e \in es : ExpectedRow(columns, e) = r})]

C9_EndToEndRows == {<<"", "red">>, <<"oval", "green">>}

\* C9: when no worker fails, a completed run has handed the sink exactly one
\* row for every item with at least one attribute and none for an item
\* without, and the multiset of rows is the same whatever the order in which
\* the tasks ended; for the end-to-end store and priority [shape] the rows
\* are ["", "red"] and ["oval", "green"], in either order.
C9_RowsPerEntity ==
    (phase = "Complete" /\ C9_NoWorkerFailed) =>
        /\ BagOf(SinkRows) = C9_ExpectedBag
        /\ (data_columns = SeedColumns(EndToEndStore.attrs)
                /\ columns = <<"shape", "color">>) =>
               /\ Len(SinkRows) = 2
               /\ Range(SinkRows) = C9_EndToEndRows

\* The end-to-end store exported in chunks of one, pear's task ending first.
C9_Witness ==
    /\ phase = "Complete"
    /\ C9_NoWorkerFailed
    /\ data_columns = SeedColumns(EndToEndStore.attrs)
    /\ Len(cols) = 2
    /\ sink = <<Entry("header", <<"shape", "color">>),
                Entry("row", <<"oval", "green">>),
                Entry("row", <<"", "red">>)>>

\* --------------------------------------------------------------- C10
\* C10: an export run has no failure terminal state: a run that launched its
\* tasks is draining or Complete, never aborted, and at Complete every task
\* it launched has been joined.
C10_NoFailureTerminal ==
    /\ phase # "Aborted"
    /\ phase = "Complete" =>
           /\ Len(cols) = (Len(all_ids) + chunk_size - 1) \div chunk_size
           /\ \A t \in DOMAIN cols : cols[t].state = "joined"

\* --------------------------------------------------------------- C11
\* The tasks whose read-only connection could not be opened.
C11_OpenFailed == {t \in DOMAIN cols : cols[t].logged = "open"}

\* One row for each item with an attribute whose chunk went to a task that
\* opened its connection.
C11_ExpectedBag ==
    LET es == {e \in EntityIds :
                  /\ HasAttrs(e)
                  /\ \E t \in DOMAIN cols \ C11_OpenFailed :
                         e \in Range(cols[t].ids)}
        rows == {ExpectedRow(columns, e) : e \in es}
    IN  [r \in rows |->
            Cardinality({e \in es : ExpectedRow(columns, e) = r})]

\* C11: a task that cannot open its read-only connection ends normally with
\* an empty batch (it never panics); the run still completes with Ok, and
\* the sink has been handed exactly the rows of all the other chunks, each
\* as the store holds it: only the rows of the failed chunks are missing.
C11_OpenFailureSwallowed ==
    /\ \A t \in C11_OpenFailed :
           /\ cols[t].state \in {"finished", "joined"}
           /\ cols[t].out = <<>>
    /\ phase = "Complete" =>
           /\ export_ret = "Ok"
           /\ BagOf(SinkRows) = C11_ExpectedBag

\* The end-to-end store in chunks of one: apple's task could not open the
\* database, pear's row was delivered and the run returned Ok.
C11_Witness ==
    /\ phase = "Complete"
    /\ export_ret = "Ok"
    /\ data_columns = SeedColumns(EndToEndStore.attrs)
    /\ columns = <<"shape", "color">>
    /\ Len(cols) = 2
    /\ C11_OpenFailed = {1}
    /\ SinkRows = << <<"oval", "green">> >>

\* --------------------------------------------------------------- C12
\* C12: item_ids returns every id of item_data exactly once, in descending
\* id (reverse creation) order.
C12_ItemIdsDescending ==
    (last.op = "item_ids" /\ last.ret = "Ok") =>
        /\ Range(last.out) = EntityIds
        /\ Len(last.out) = Cardinality(EntityIds)
        /\ \A i, j \in DOMAIN last.out : i < j => last.out[i] > last.out[j]

\* --------------------------------------------------------------- C13
\* C13: in a dump_csv run that got as far as its column list, the first
\* record handed to the sink is the header, its fields are the run's column
\* list, and every later record is a data row (one header, before any row);
\* it is there before proc_ids has spawned any task; and a run over a store
\* with no item ends with the header alone.
C13_HeaderFirst ==
    (sink_kind = "csv" /\ phase \in {"ColumnsDiscovered", "WorkersLaunched",
                                     "Draining", "Complete", "Aborted"}) =>
        /\ Len(sink) >= 1
        /\ sink[1].kind = "header"
        /\ sink[1].fields = columns
        /\ \A i \in 2..Len(sink) : sink[i].kind = "row"
        /\ phase = "ColumnsDiscovered" => (Len(sink) = 1 /\ cols = <<>>)
        /\ (phase = "Complete" /\ item_data = <<>>) => Len(sink) = 1

\* A finished dump_csv run whose sink holds the header, then two data rows.
C13_Witness ==
    /\ sink_kind = "csv"
    /\ phase = "Complete"
    /\ Len(sink) = 3
    /\ sink[1] = [kind |-> "header", fields |-> columns]
    /\ sink[2].kind = "row"
    /\ sink[3].kind = "row"

\* --------------------------------------------------------------- C14
\* C14: after any sequence of next_row, insert, insert_batched and read
\* calls, the item_id of every row of data_columns is the id of a row of
\* item_data.
C14_AttributesReferenceItems ==
    \A i \in DOMAIN data_columns : data_columns[i].item_id \in EntityIds

\* Both items hold an attribute, the last one written by insert_batched.
C14_Witness ==
    /\ last.op = "insert_batched"
    /\ last.ret = "Ok"
    /\ Len(item_data) = 2
    /\ \E i, j \in DOMAIN data_columns :
           /\ data_columns[i].item_id = 1
           /\ data_columns[j].item_id = 2
    /\ data_columns[Len(data_columns)].id = last_insert_rowid

\* --------------------------------------------------------------- C15
\* The step is a call get_distinct_keys(priority_cols).
C15_Call == last'.op = "get_distinct_keys"

\* The first row of data_columns that holds key k.
C15_FirstRow(k) == MinOf({i \in DOMAIN data_columns : data_columns[i].key = k})

\* out is the one sequence the store and the priority list determine: the
\* priority list, then each other key of the store once, by first row.
C15_Determined(priority, out) ==
    LET rest == SubSeq(out, Len(priority) + 1, Len(out))
    IN  /\ IsPrefix(priority, out)
        /\ Range(rest) = {data_columns[i].key : i \in DOMAIN data_columns}
                             \ Range(priority)
        /\ \A i, j \in DOMAIN rest :
               i < j => C15_FirstRow(rest[i]) < C15_FirstRow(rest[j])

C15_Step ==
    /\ item_data' = item_data
    /\ data_columns' = data_columns
    /\ current_id' = current_id
    /\ last'.ret = "Ok" => C15_Determined(last'.args[1], last'.out)
    /\ (/\ last.op = "get_distinct_keys"
        /\ last.ret = "Ok"
        /\ last'.ret = "Ok"
        /\ last'.args = last.args) => last'.out = last.out

\* C15: get_distinct_keys is deterministic and read-only.  A call leaves
\* item_data, data_columns and current_id unchanged; what it returns is fixed
\* by the content of data_columns and the priority list alone, so a call
\* repeated with the same list and no write in between returns the same
\* sequence.
C15_DistinctKeysDeterministic == [][C15_Call => C15_Step]_vars

\* A call with the cursor set, on a store holding two keys the list does not
\* name: the list, then the two keys by first row.
C15_Witness ==
    /\ last.op = "get_distinct_keys"
    /\ last.ret = "Ok"
    /\ last.args = << <<"size">> >>
    /\ last.out = <<"size", "shape", "color">>
    /\ current_id # None

\* --------------------------------------------------------------- C16
\* The step takes a result out of the JoinSet: a task becomes joined, or the
\* result is a JoinError and the driver panics.
C16_Consumes ==
    \/ phase' = "Aborted"
    \/ \E t \in DOMAIN cols \cap DOMAIN cols' :
           cols[t].state # "joined" /\ cols'[t].state = "joined"

\* The number of chunks of the run.
C16_ChunkCount == (Len(all_ids) + chunk_size - 1) \div chunk_size

C16_Step ==
    \* the column list is computed once, when no task exists
    /\ columns' # columns =>
           (phase = "Idle" /\ cols = <<>> /\ cols' = <<>>)
    \* every task holds the column list of the run
    /\ \A t \in DOMAIN cols' : cols'[t].columns = columns'
    \* tasks are launched by proc_ids only, all of them, with nothing yet
    \* consumed
    /\ Len(cols') > Len(cols) =>
           /\ phase = "ColumnsDiscovered"
           /\ cols = <<>>
           /\ Len(cols') = C16_ChunkCount
           /\ SinkRows' = <<>>
    \* a result is consumed only when every chunk has its task
    /\ C16_Consumes =>
           /\ phase \in {"WorkersLaunched", "Draining"}
           /\ ids_count = <<>>
           /\ Len(cols) = C16_ChunkCount
    \* once draining has begun no task is launched
    /\ phase \in {"Draining", "Complete", "Aborted"} => Len(cols') <= Len(cols)

\* C16: the steps of one export run are ordered.  The column list is
\* computed once, before any task is launched; every task of the run is
\* given that list; all tasks are launched (by proc_ids) before the driver
\* takes the first result; no task is launched once draining has begun.
C16_RunIsOrdered == [][C16_Step]_vars

\* Two tasks with the run's column list, one already joined and its row in
\* the sink, the other not yet run.
C16_Witness ==
    /\ phase = "Draining"
    /\ Len(columns) = 2
    /\ Len(cols) = 2
    /\ \E t, u \in DOMAIN cols :
           /\ cols[t].state = "joined"
           /\ cols[u].state = "spawned"
           /\ cols[t].columns = columns
           /\ cols[u].columns = columns
    /\ Len(SinkRows) = 1

\* --------------------------------------------------------------- C17
\* Task t ends in this step.
C17_Ends(t) ==
    /\ t \in DOMAIN cols'
    /\ cols[t].state = "spawned"
    /\ cols'[t].state \in {"finished", "panicked"}

\* The driver joins task t in this step.
C17_Joins(t) ==
    /\ t \in DOMAIN cols'
    /\ cols[t].state = "finished"
    /\ cols'[t].state = "joined"

\* The rows of the items of task t's chunk that have attributes, in
\* ascending id, read from the store.
C17_Batch(t) ==
    LET es == Ascending({e \in Range(cols[t].ids) : HasAttrs(e)})
    IN  [j \in DOMAIN es |-> ExpectedRow(columns, es[j])]

C17_Step ==
    \* a task that ends queues behind the tasks that ended before it
    /\ \A t \in DOMAIN cols :
           C17_Ends(t) => done_order' = Append(done_order, t)
    \* the task joined is the one that ended first; its rows, the chunk's
    \* items in ascending id, go to the sink in one piece and in that order
    /\ \A t \in DOMAIN cols :
           C17_Joins(t) =>
               /\ t = Head(done_order)
               /\ cols[t].logged = "" => cols[t].out = C17_Batch(t)
               /\ SinkRows' = SinkRows \o cols[t].out
    \* nothing else hands a row to the sink
    /\ SinkRows' # SinkRows => \E t \in DOMAIN cols : C17_Joins(t)

\* C17: batches reach the sink in the order the tasks ended and are never
\* interleaved: the rows of one chunk are handed over contiguously, in the
\* order the task returned them, which is ascending item id; rows of
\* different chunks follow the order in which their tasks ended.
C17_BatchesInCompletionOrder == [][C17_Step]_vars

\* OrderStore in chunks of two: the task of chunk [3] ended first, so fig's
\* row precedes the batch of chunk [1, 2], apple's row then pear's.
C17_Witness ==
    /\ phase = "Complete"
    /\ data_columns = SeedColumns(OrderStore.attrs)
    /\ columns = <<"color", "shape">>
    /\ chunk_size = 2
    /\ SinkRows = << <<"", "oval">>, <<"red", "">>, <<"green", "">> >>

\* --------------------------------------------------------------- C18
\* What a task that read its chunk returns, as the tables and the task's own
\* arguments fix it: current_id does not occur here.
C18_FromTables(t) ==
    LET es == Ascending({e \in Range(t.ids) :
                  \E i \in DOMAIN data_columns : data_columns[i].item_id = e})
    IN  [j \in DOMAIN es |->
            [c \in DOMAIN t.columns |->
                LET hits == {i \in DOMAIN data_columns :
                                /\ data_columns[i].item_id = es[j]
                                /\ data_columns[i].key = t.columns[c]}
                IN  IF hits = {} THEN "" ELSE data_columns[MaxOf(hits)].value]]

C18_Step ==
    /\ item_data' = item_data
    /\ data_columns' = data_columns
    /\ current_id' = current_id
    /\ \A t \in DOMAIN cols \cap DOMAIN cols' :
           (/\ cols[t].state = "spawned"
            /\ cols'[t].state = "finished"
            /\ cols'[t].logged = "") =>
               cols'[t].out = C18_FromTables(cols[t])

\* C18: an export run only reads the store.  No step of dump_csv or dump_db,
\* of proc_ids or of a task changes item_data, data_columns or current_id, in
\* any interleaving, so they are after the run what they were before it; and
\* what a task returns is fixed by the tables and the task's arguments, not
\* by current_id.
C18_ExportOnlyReads == [][C18_Step]_vars

\* A finished dump_db run over the end-to-end store: both rows delivered,
\* the tables and the cursor as the producer left them.
C18_Witness ==
    /\ phase = "Complete"
    /\ sink_kind = "db"
    /\ item_data = SeedItems(EndToEndStore.n)
    /\ data_columns = SeedColumns(EndToEndStore.attrs)
    /\ current_id = Some(2)
    /\ Len(SinkRows) = 2
    /\ \A t \in DOMAIN cols : cols[t].logged = ""

\* --------------------------------------------------------------- C19
C19_Step ==
    \* only a next_row that returns Ok changes the cursor; insert,
    \* insert_batched, how_many_items, item_ids, get_distinct_keys and a
    \* next_row that returns Err leave it as it was
    /\ current_id' # current_id =>
           (last'.op = "next_row" /\ last'.ret = "Ok")
    \* a next_row that returns Ok leaves the cursor set
    /\ (last'.op = "next_row" /\ last'.ret = "Ok") => current_id' # None
    \* once set it is never unset
    /\ current_id # None => current_id' # None
    \* it is unset only while no next_row has succeeded (no item exists)
    /\ current_id' = None => item_data' = <<>>
    \* it holds the id of an item of item_data
    /\ current_id' # None => Unwrap(current_id') \in EntityIds'

\* C19: the cursor is unset only until the first next_row that succeeds;
\* from then on it is never unset and always holds the id of an existing
\* item.  Only next_row changes it, and a next_row that returns Err leaves
\* it at its previous value.
C19_CursorDiscipline == [][C19_Step]_vars

\* next_row failed while the cursor was on the first of two items, which
\* holds an attribute: the cursor is still on that item.
C19_Witness ==
    /\ last.op = "next_row"
    /\ last.ret = "Err(rusqlite)"
    /\ Len(item_data) = 2
    /\ current_id = Some(1)
    /\ \E i \in DOMAIN data_columns : data_columns[i].item_id = 1

\* --------------------------------------------------------------- C20
\* The step is a call of next().
C20_Call == last'.op = "next"

C20_Reverse(s) == [i \in DOMAIN s |-> s[Len(s) + 1 - i]]

\* The snapshot of a started iteration: what was yielded, then what is left
\* in the order it will be yielded.
C20_Snapshot(iter, out) == out \o C20_Reverse(Unwrap(iter))

\* The map yielded for item n: "id" first; its value is n in decimal unless
\* the item holds an attribute named "id", whose last value then takes the
\* place; then one entry per other key of the item, with its last value.
C20_MapFits(im, n) ==
    /\ Len(im) >= 1
    /\ im[1][1] = "id"
    /\ im[1][2] = IF AttrRows(n, "id") = {} THEN to_string(n)
                  ELSE LastValue(n, "id")
    /\ \A i, j \in DOMAIN im : i # j => im[i][1] # im[j][1]
    /\ {im[i][1] : i \in DOMAIN im} =
           {"id"} \cup {data_columns[i].key : i \in
                           {r \in DOMAIN data_columns :
                               data_columns[r].item_id = n}}
    /\ \A i \in 2..Len(im) : im[i][2] = LastValue(n, im[i][1])

C20_Step ==
    /\ C20_Call =>
           \* the first call takes the snapshot: every id, ascending
           /\ current_row_iter = None =>
                  /\ yielded = <<>>
                  /\ C20_Snapshot(current_row_iter', yielded') =
                         Ascending(EntityIds)
           \* a later call keeps it
           /\ current_row_iter # None =>
                  C20_Snapshot(current_row_iter', yielded') =
                      C20_Snapshot(current_row_iter, yielded)
           \* Some(map of the next id of the snapshot), or None when the
           \* snapshot is used up, and then None again on every later call
           /\ IF Unwrap(current_row_iter') = <<>> /\ yielded' = yielded
              THEN /\ last'.ret = "None"
                   /\ current_row_iter' = Some(<<>>)
              ELSE /\ last'.ret = "Some"
                   /\ Len(yielded') = Len(yielded) + 1
                   /\ C20_MapFits(last'.out, yielded'[Len(yielded')])
           /\ current_row_iter = Some(<<>>) => last'.ret = "None"
    \* no other call touches the snapshot
    /\ ~C20_Call => (current_row_iter' = current_row_iter /\ yielded' = yielded)
    \* each id at most once, in ascending order
    /\ \A i, j \in DOMAIN yielded' : i < j => yielded'[i] < yielded'[j]

\* C20: the first next() takes a snapshot of the ids of item_data; the calls
\* yield one map per id of the snapshot, each id once, in ascending order,
\* every map starting with the entry "id"; when the snapshot is used up
\* next() returns None, on every later call too; an item created after the
\* first call is never yielded.
C20_IteratorSnapshot == [][C20_Step]_vars

\* The iteration started with one item, yielded it and ended; the item
\* created meanwhile exists in the store and was not yielded.
C20_Witness ==
    /\ last.op = "next"
    /\ last.ret = "None"
    /\ current_row_iter = Some(<<>>)
    /\ yielded = <<1>>
    /\ Len(item_data) = 2
    /\ \E i \in DOMAIN data_columns : data_columns[i].item_id = 1

====
